---- MODULE Spec2Model ----
(***************************************************************************)
(* AIIP message pipeline: the gateway (orchestrator and node directory),   *)
(* the ledger service (key custodian and ledger store) and the translator  *)
(* (schema transformer and telemetry sink).                                *)
(*                                                                         *)
(* Each service is a single asyncio event loop: a handler runs atomically  *)
(* between two awaits.  The ledger and translator handlers contain no      *)
(* await, so each is one action.  The gateway handlers await their HTTP    *)
(* calls: one action sends a request and lets the collaborator handle it,  *)
(* a later action resumes the gateway coroutine with the response.         *)
(*                                                                         *)
(* Abstractions: time.time() values are one token, kept only where a       *)
(* record's end is stamped, and left out elsewhere; uuid4() values are     *)
(* fresh identifiers drawn from counters; strings and byte                 *)
(* strings are tagged records; SHA-256 and Ed25519 are ideal (no           *)
(* collisions, no forgeries).                                              *)
(***************************************************************************)
EXTENDS Integers, Sequences, FiniteSets, TLC

\* ---------------------------------------------------------------- bounds
MaxRegs == 2
MaxMsgs == 2
MaxAppends == 1
MaxSigns == 1
MaxMappings == 2
\* mappings registered while the pipeline is exercised
MaxPipelineMappings == 1
\* successful direct calls of /transform
MaxTransforms == 2
MaxFaults == 1

NodeIds == {"A", "B"}
Senders == {"A"}
Receivers == {"B"}
NodeTypes == {"ai"}
Capabilities == {<<"route">>}
\* key pairs whose private half is held by the node itself
ExternalKeys == {0}
Payloads == {[x |-> 1], [x |-> 1, y |-> 2]}
SourceSchemas == {"s1"}
TargetSchemas == {"t1"}
RuleSets == {[u |-> "x", v |-> "z"]}
\* the translator driven directly: a second target schema and a second rule set
TranslatorTargets == TargetSchemas \cup {"t2"}
TranslatorRuleSets == RuleSets \cup {[u |-> "y"]}

\* ------------------------------------------------------- values and codecs
None == [t |-> "None"]
EmptyStr == [t |-> "empty"]
Garbage == [t |-> "text"]
DecodeError == [t |-> "error"]

\* Python truthiness of an Optional[str]
Truthy(v) == v # None /\ v # EmptyStr

Str(s) == [t |-> "str", s |-> s]

b64encode(b) == [t |-> "b64", b |-> b]

b64decode(s) == IF s.t = "b64" THEN s.b ELSE DecodeError

PublicBytes(k) == [t |-> "pub", key |-> k]

PrivateBytes(k) == [t |-> "priv", key |-> k]

\* private_key.sign(data): deterministic signature of data under the key
Ed25519Sign(priv, data) == [t |-> "sig", key |-> priv.key, data |-> data]

\* public_key.verify(signature, data): TRUE when it returns, FALSE when it raises
Ed25519Verify(pub, sig, data) ==
    /\ pub.t = "pub"
    /\ sig.t = "sig"
    /\ sig.key = pub.key
    /\ sig.data = data

\* json.dumps(x, sort_keys=True)
JsonDumps(x) == [t |-> "json", v |-> x]

\* hashlib.sha256(s.encode()).hexdigest()
Sha256(s) == [t |-> "sha256", of |-> s]

\* time.time()
Time == [t |-> "time"]

Uuid(svc, n) == [t |-> "uuid", svc |-> svc, n |-> n]

HttpError(code, detail) == [status |-> code, body |-> [detail |-> detail]]

\* dict assignment d[k] = v
DictSet(d, k, v) == [j \in DOMAIN d \cup {k} |-> IF j = k THEN v ELSE d[j]]

DataStrings == {JsonDumps(p) : p \in Payloads}

VARIABLES
    node_keys,          \* ledger: node id -> key pair
    ledger_entries,     \* ledger: sequence of entries
    next_key,           \* number of the next generated key pair
    schema_mappings,    \* translator: mappings in insertion order
    telemetry_data,     \* translator: telemetry log
    registered_nodes,   \* gateway: node directory
    routing_table,      \* gateway: capability -> node ids
    message_queue,      \* gateway: message history
    runs,               \* gateway: send_message coroutines in flight
    regs,               \* gateway: register_node coroutines in flight
    counters,           \* requests accepted so far, per kind
    signed,             \* signatures returned to callers of /sign
    last                \* the last HTTP exchange with an external caller

vars == <<node_keys, ledger_entries, next_key, schema_mappings, telemetry_data,
          registered_nodes, routing_table, message_queue, runs, regs,
          counters, signed, last>>

ledgerVars == <<node_keys, ledger_entries, next_key>>
translatorVars == <<schema_mappings, telemetry_data>>
gatewayVars == <<registered_nodes, routing_table, message_queue, runs, regs>>

\* ------------------------------------------------------------ ledger service

\* POST /nodes/register of the ledger
ledger_register_node(keys, nk, node_id, public_key) ==
    IF Truthy(public_key)
    THEN LET bytes == b64decode(public_key) IN
         IF bytes.t # "pub"
         THEN [status |-> 400, body |-> [detail |-> "Invalid public key"],
               node_keys |-> keys, next_key |-> nk]
         ELSE [status |-> 200,
               body |-> [node_id |-> node_id,
                         public_key |-> b64encode(PublicBytes(bytes.key)),
                         private_key |-> None,
                         status |-> "registered"],
               node_keys |-> DictSet(keys, node_id,
                                [public_key |-> b64encode(PublicBytes(bytes.key)),
                                 private_key |-> None]),
               next_key |-> nk]
    ELSE [status |-> 200,
          body |-> [node_id |-> node_id,
                    public_key |-> b64encode(PublicBytes(nk)),
                    private_key |-> b64encode(PrivateBytes(nk)),
                    status |-> "registered"],
          node_keys |-> DictSet(keys, node_id,
                           [public_key |-> b64encode(PublicBytes(nk)),
                            private_key |-> b64encode(PrivateBytes(nk))]),
          next_key |-> nk + 1]

\* /sign without its check of the private key
sign_data_no_key_check(keys, node_id, data) ==
    IF node_id \notin DOMAIN keys
    THEN HttpError(404, "Node not registered")
    ELSE LET bytes == b64decode(keys[node_id].private_key) IN
         IF bytes.t # "priv"
         THEN HttpError(500, "Signing failed")
         ELSE [status |-> 200,
               body |-> [data |-> data,
                         signature |-> b64encode(Ed25519Sign(bytes, data)),
                         node_id |-> node_id]]

\* POST /sign
sign_data(keys, node_id, data) ==
    IF node_id \notin DOMAIN keys
    THEN HttpError(404, "Node not registered")
    ELSE IF ~Truthy(keys[node_id].private_key)
    THEN HttpError(400, "Private key not available for this node")
    ELSE LET bytes == b64decode(keys[node_id].private_key) IN
         IF bytes.t # "priv"
         THEN HttpError(500, "Signing failed")
         ELSE [status |-> 200,
               body |-> [data |-> data,
                         signature |-> b64encode(Ed25519Sign(bytes, data)),
                         node_id |-> node_id]]

\* the same check with the signed bytes left unchecked
SignatureValidAnyData(keys, node_id, data, signature) ==
    LET public_key == b64decode(keys[node_id].public_key)
        signature_bytes == b64decode(signature)
    IN /\ public_key.t = "pub"
       /\ signature_bytes.t = "sig"
       /\ signature_bytes.key = public_key.key

\* the try block shared by /verify and /ledger/append
SignatureValid(keys, node_id, data, signature) ==
    LET public_key == b64decode(keys[node_id].public_key)
        signature_bytes == b64decode(signature)
    IN Ed25519Verify(public_key, signature_bytes, data)

\* /verify without its except clause
verify_unguarded(keys, data, signature, node_id) ==
    IF node_id \notin DOMAIN keys
    THEN HttpError(404, "Node not registered")
    ELSE IF b64decode(signature) = DecodeError
    THEN HttpError(500, "Internal Server Error")
    ELSE [status |-> 200,
          body |-> [valid |-> SignatureValid(keys, node_id, data, signature),
                    node_id |-> node_id]]

\* POST /verify
verify_signature(keys, data, signature, node_id) ==
    IF node_id \notin DOMAIN keys
    THEN HttpError(404, "Node not registered")
    ELSE [status |-> 200,
          body |-> [valid |-> SignatureValid(keys, node_id, data, signature),
                    node_id |-> node_id]]

\* the ledger entry built by /ledger/append, with a height one too high
LedgerEntryOneBased(entries, keys, data, node_id, signature) ==
    [id |-> Uuid("ledger", Len(entries) + 1),
     data |-> data,
     data_hash |-> Sha256(data),
     node_id |-> node_id,
     signature |-> signature,
     verified |-> /\ Truthy(signature)
                  /\ node_id \in DOMAIN keys
                  /\ SignatureValid(keys, node_id, data, signature),
     block_height |-> Len(entries) + 1]

\* the ledger entry built by /ledger/append
NewLedgerEntry(entries, keys, data, node_id, signature) ==
    [id |-> Uuid("ledger", Len(entries) + 1),
     data |-> data,
     data_hash |-> Sha256(data),
     node_id |-> node_id,
     signature |-> signature,
     verified |-> /\ Truthy(signature)
                  /\ node_id \in DOMAIN keys
                  /\ SignatureValid(keys, node_id, data, signature),
     block_height |-> Len(entries)]

\* /ledger/append turning away an entry whose signature does not verify
append_rejecting(entries, keys, data, node_id, signature) ==
    LET ledger_entry == NewLedgerEntry(entries, keys, data, node_id, signature) IN
    IF Truthy(signature) /\ ~ledger_entry.verified
    THEN HttpError(400, "Invalid signature") @@ [ledger_entries |-> entries]
    ELSE [status |-> 200,
          body |-> [entry_id |-> ledger_entry.id,
                    block_height |-> ledger_entry.block_height,
                    verified |-> ledger_entry.verified,
                    data_hash |-> ledger_entry.data_hash],
          ledger_entries |-> Append(entries, ledger_entry)]

\* /ledger/append putting the new entry at the head of the list
append_at_head(entries, keys, data, node_id, signature) ==
    LET ledger_entry == NewLedgerEntry(entries, keys, data, node_id, signature) IN
    [status |-> 200,
     body |-> [entry_id |-> ledger_entry.id,
               block_height |-> ledger_entry.block_height,
               verified |-> ledger_entry.verified,
               data_hash |-> ledger_entry.data_hash],
     ledger_entries |-> <<ledger_entry>> \o entries]

\* /ledger/append answering with an id of its own making
append_answering_other_id(entries, keys, data, node_id, signature) ==
    LET ledger_entry == NewLedgerEntry(entries, keys, data, node_id, signature) IN
    [status |-> 200,
     body |-> [entry_id |-> Uuid("answer", Len(entries) + 1),
               block_height |-> ledger_entry.block_height,
               verified |-> ledger_entry.verified,
               data_hash |-> ledger_entry.data_hash],
     ledger_entries |-> Append(entries, ledger_entry)]

\* POST /ledger/append
append_to_ledger(entries, keys, data, node_id, signature) ==
    LET ledger_entry == NewLedgerEntry(entries, keys, data, node_id, signature) IN
    [status |-> 200,
     body |-> [entry_id |-> ledger_entry.id,
               block_height |-> ledger_entry.block_height,
               verified |-> ledger_entry.verified,
               data_hash |-> ledger_entry.data_hash],
     ledger_entries |-> Append(entries, ledger_entry)]

\* GET /ledger/{entry_id}: the first entry with this id
get_ledger_entry(entries, entry_id) ==
    LET found == {i \in 1..Len(entries) : entries[i].id = entry_id} IN
    IF found = {}
    THEN HttpError(404, "Entry not found")
    ELSE [status |-> 200,
          body |-> entries[CHOOSE i \in found : \A j \in found : i <= j]]

\* -------------------------------------------------------- translator service

\* POST /schema/register (created_at and the timestamp are left out)
register_schema_mapping(mappings, telemetry, mapping) ==
    LET mapping_id == Uuid("mapping", Len(mappings) + 1) IN
    [status |-> 200,
     body |-> [mapping_id |-> mapping_id, status |-> "registered"],
     schema_mappings |-> Append(mappings,
                            [id |-> mapping_id,
                             source_schema |-> mapping.source_schema,
                             target_schema |-> mapping.target_schema,
                             mapping_rules |-> mapping.mapping_rules]),
     telemetry_data |-> Append(telemetry,
                           [event_type |-> "schema_registered",
                            mapping_id |-> mapping_id,
                            source_schema |-> mapping.source_schema,
                            target_schema |-> mapping.target_schema])]

\* the lookup loop of /transform: indexes of the matching mappings
MatchingMappings(mappings, source_schema, target_schema) ==
    {i \in 1..Len(mappings) : /\ mappings[i].source_schema = source_schema
                              /\ mappings[i].target_schema = target_schema}

\* the rule loop of /transform
ApplyRules(rules, data) ==
    [target_field \in {f \in DOMAIN rules : rules[f] \in DOMAIN data}
        |-> data[rules[target_field]]]

\* /transform handing the data back unchanged when no mapping matches
transform_data_passthrough(mappings, telemetry, data, source_schema, target_schema) ==
    LET found == MatchingMappings(mappings, source_schema, target_schema) IN
    IF found = {}
    THEN [status |-> 200,
          body |-> [transformed_data |-> data, mapping_id |-> None],
          schema_mappings |-> mappings,
          telemetry_data |-> telemetry]
    ELSE LET mapping == mappings[CHOOSE i \in found : \A j \in found : i <= j]
             transformed_data == ApplyRules(mapping.mapping_rules, data)
         IN [status |-> 200,
             body |-> [transformed_data |-> transformed_data,
                       mapping_id |-> mapping.id],
             schema_mappings |-> mappings,
             telemetry_data |-> Append(telemetry,
                                   [event_type |-> "data_transformed",
                                    mapping_id |-> mapping.id,
                                    source_schema |-> source_schema,
                                    target_schema |-> target_schema])]

\* /transform with the break of its lookup loop left out: the last match wins
transform_data_last_match(mappings, telemetry, data, source_schema, target_schema) ==
    LET found == MatchingMappings(mappings, source_schema, target_schema) IN
    IF found = {}
    THEN HttpError(404, "Schema mapping not found")
         @@ [schema_mappings |-> mappings, telemetry_data |-> telemetry]
    ELSE LET mapping == mappings[CHOOSE i \in found : \A j \in found : i >= j]
             transformed_data == ApplyRules(mapping.mapping_rules, data)
         IN [status |-> 200,
             body |-> [transformed_data |-> transformed_data,
                       mapping_id |-> mapping.id],
             schema_mappings |-> mappings,
             telemetry_data |-> Append(telemetry,
                                   [event_type |-> "data_transformed",
                                    mapping_id |-> mapping.id,
                                    source_schema |-> source_schema,
                                    target_schema |-> target_schema])]

\* POST /transform (data_size and the timestamp are left out)
transform_data(mappings, telemetry, data, source_schema, target_schema) ==
    LET found == MatchingMappings(mappings, source_schema, target_schema) IN
    IF found = {}
    THEN HttpError(404, "Schema mapping not found")
         @@ [schema_mappings |-> mappings, telemetry_data |-> telemetry]
    ELSE LET mapping == mappings[CHOOSE i \in found : \A j \in found : i <= j]
             transformed_data == ApplyRules(mapping.mapping_rules, data)
         IN [status |-> 200,
             body |-> [transformed_data |-> transformed_data,
                       mapping_id |-> mapping.id],
             schema_mappings |-> mappings,
             telemetry_data |-> Append(telemetry,
                                   [event_type |-> "data_transformed",
                                    mapping_id |-> mapping.id,
                                    source_schema |-> source_schema,
                                    target_schema |-> target_schema])]

\* POST /telemetry
log_telemetry(telemetry, event) ==
    LET telemetry_entry == [id |-> Uuid("telemetry", Len(telemetry) + 1),
                            event_type |-> event.event_type,
                            node_id |-> event.node_id,
                            data |-> event.data]
    IN [status |-> 200,
        body |-> [status |-> "logged", event_id |-> telemetry_entry.id],
        telemetry_data |-> Append(telemetry, telemetry_entry)]

\* ------------------------------------------------------ HTTP between services

Pending == [kind |-> "pending"]
Exception(e) == [kind |-> "exception", error |-> e]
Response(r) == [kind |-> "response", status |-> r.status, body |-> r.body]

\* ok: handled and answered; timeout: handled, the answer is lost;
\* raise: the collaborator is unreachable; err: an error status in its place
Outcomes == {"ok", "timeout", "raise", "err"}

Handled(o) == o \in {"ok", "timeout"}

Deliver(o, r) ==
    CASE o = "ok" -> Response(r)
      [] o = "timeout" -> Exception("ReadTimeout")
      [] o = "raise" -> Exception("ConnectError")
      [] o = "err" -> Response(HttpError(503, "Service Unavailable"))

\* ------------------------------------------------------------ gateway service

Unbound == [t |-> "unbound"]

Messages ==
    [from_node : Senders, to_node : Receivers, message_type : {"task"},
     data : {[x |-> 1]}, schema : {None} \cup {Str(x) : x \in SourceSchemas}]

\* the submissions tried: a transform is asked for a message that names its
\* schema, or not at all
RouteRequests ==
    {q \in [message : Messages,
            transform_schema : {None} \cup {Str(x) : x \in TargetSchemas},
            commit_to_ledger : BOOLEAN] :
        Truthy(q.transform_schema) = Truthy(q.message.schema)}

Registrations ==
    [node_id : NodeIds, node_type : NodeTypes, capabilities : Capabilities,
     endpoint : {None}]

\* the routing table loop of register_node
RECURSIVE UpdateRouting(_, _, _)
UpdateRouting(table, capabilities, node_id) ==
    IF capabilities = <<>>
    THEN table
    ELSE LET capability == Head(capabilities)
             old == IF capability \in DOMAIN table THEN table[capability] ELSE <<>>
         IN UpdateRouting(DictSet(table, capability, Append(old, node_id)),
                          Tail(capabilities), node_id)

\* dict.get(key) on the JSON body of a response
Get(body, key) == IF key \in DOMAIN body THEN body[key] ELSE None

\* register_node after the await: the record stored and the answer returned
StoredNode(registration, ledger_data) ==
    [node_id |-> registration.node_id,
     node_type |-> registration.node_type,
     capabilities |-> registration.capabilities,
     endpoint |-> registration.endpoint,
     public_key |-> Get(ledger_data, "public_key"),
     private_key |-> Get(ledger_data, "private_key"),
     status |-> "active"]

\* the validation with the check of to_node left out
NodesExistFromOnly(nodes, message) ==
    message.from_node \in DOMAIN nodes

\* the validation at the head of send_message
NodesExist(nodes, message) ==
    /\ message.from_node \in DOMAIN nodes
    /\ message.to_node \in DOMAIN nodes

\* the message tracking entry created by send_message
NewMessageEntry(message_id, message) ==
    [id |-> message_id,
     hash |-> Sha256(JsonDumps(message)),
     from_node |-> message.from_node,
     to_node |-> message.to_node,
     message_type |-> message.message_type,
     data |-> message.data,
     schema |-> message.schema,
     status |-> "processing",
     steps |-> <<>>]

\* the locals of a send_message coroutine, suspended at the await named by pc
NewRun(message_id, route_request) ==
    [route_request |-> route_request,
     message_entry |-> NewMessageEntry(message_id, route_request.message),
     transformed_data |-> route_request.message.data,
     signature |-> Unbound,
     ledger_entry_id |-> Unbound,
     pc |-> "start",
     resp |-> Pending]

TransformWanted(route_request) ==
    Truthy(route_request.transform_schema) /\ Truthy(route_request.message.schema)

\* Step 3 up to its await, or on to step 4
ToCommit(run) ==
    IF run.route_request.commit_to_ledger
    THEN [run EXCEPT !.ledger_entry_id = None, !.pc = "commit", !.resp = Pending]
    ELSE [run EXCEPT !.ledger_entry_id = None, !.pc = "telemetry", !.resp = Pending]

\* Step 2 up to its await, or on to step 3
ToSign(nodes, run) ==
    LET sender_node == nodes[run.route_request.message.from_node] IN
    IF Truthy(sender_node.private_key)
    THEN [run EXCEPT !.signature = None, !.pc = "sign", !.resp = Pending]
    ELSE ToCommit([run EXCEPT !.signature = None])

\* Step 1 up to its await, or on to step 2
ToTransform(nodes, run) ==
    IF TransformWanted(run.route_request)
    THEN [run EXCEPT !.pc = "transform", !.resp = Pending]
    ELSE ToSign(nodes, run)

AddStep(run, step) ==
    [run EXCEPT !.message_entry.steps = Append(@, step)]

\* the bundle committed to the ledger
LedgerData(run) ==
    LET message == run.route_request.message IN
    [message_id |-> run.message_entry.id,
     from_node |-> message.from_node,
     to_node |-> message.to_node,
     message_type |-> message.message_type,
     hash |-> run.message_entry.hash,
     transformed_data |-> run.transformed_data]

TelemetryEvent(run) ==
    LET message == run.route_request.message IN
    [event_type |-> "message_routed",
     node_id |-> message.from_node,
     data |-> [message_id |-> run.message_entry.id,
               to_node |-> message.to_node,
               message_type |-> message.message_type,
               hash |-> run.message_entry.hash]]

\* the end of the try block
CompletedEntry(run) ==
    [run.message_entry EXCEPT !.status = "completed"]
    @@ [transformed_data |-> run.transformed_data,
        signature |-> run.signature,
        ledger_entry_id |-> run.ledger_entry_id,
        completed_at |-> Time]

\* the except block without its assignment of the status
FailedEntryStillProcessing(run, e) ==
    run.message_entry @@ [error |-> e]

\* the except block
FailedEntry(run, e) ==
    [run.message_entry EXCEPT !.status = "failed"] @@ [error |-> e, failed_at |-> Time]

\* the return statement: ledger_entry_id is a local that an early exception
\* leaves unassigned
Summary(run, entry) ==
    IF run.ledger_entry_id = Unbound
    THEN HttpError(500, "Internal Server Error")
    ELSE [status |-> 200,
          body |-> [message_id |-> entry.id,
                    status |-> entry.status,
                    hash |-> entry.hash,
                    steps |-> entry.steps,
                    ledger_entry_id |-> run.ledger_entry_id]]

\* ------------------------------------------------------------------- state

Init ==
    /\ node_keys = <<>>
    /\ ledger_entries = <<>>
    /\ next_key = 1
    /\ schema_mappings = <<>>
    /\ telemetry_data = <<>>
    /\ registered_nodes = <<>>
    /\ routing_table = <<>>
    /\ message_queue = <<>>
    /\ runs = {}
    /\ regs = {}
    /\ counters = [regs |-> 0, msgs |-> 0, appends |-> 0, mappings |-> 0, faults |-> 0]
    /\ signed = {}
    /\ last = [op |-> "none"]

Exchange(op, request, r) ==
    [op |-> op, request |-> request, status |-> r.status, body |-> r.body]

\* a collaborator call that does not go well uses up the fault budget
Count(o, kind) ==
    [counters EXCEPT ![kind] = @ + 1,
                     !.faults = IF o = "ok" THEN @ ELSE @ + 1]

CountFault(o) ==
    [counters EXCEPT !.faults = IF o = "ok" THEN @ ELSE @ + 1]

FaultAllowed(o) == o = "ok" \/ counters.faults < MaxFaults

\* signatures a caller can present: none, junk, a signature it got from
\* /sign, and signatures made with a private key it holds itself
SignatureInputs ==
    {None, EmptyStr, Garbage}
    \cup {x.signature : x \in signed}
    \cup {b64encode(Ed25519Sign(PrivateBytes(k), d)) :
            k \in ExternalKeys, d \in DataStrings}

PublicKeyInputs ==
    {None, EmptyStr, Garbage} \cup {b64encode(PublicBytes(k)) : k \in ExternalKeys}

\* ---------------------------------------------------- ledger service actions

LedgerRegisterNode(node_id, public_key) ==
    LET r == ledger_register_node(node_keys, next_key, node_id, public_key) IN
    /\ counters.regs < MaxRegs
    /\ node_keys' = r.node_keys
    /\ next_key' = r.next_key
    /\ counters' = Count("ok", "regs")
    /\ last' = Exchange("ledger.register_node",
                        [node_id |-> node_id, public_key |-> public_key], r)
    /\ UNCHANGED <<ledger_entries, translatorVars, gatewayVars, signed>>

SignData(node_id, data) ==
    LET r == sign_data(node_keys, node_id, data)
        known == IF r.status = 200 THEN signed \cup {r.body} ELSE signed
    IN /\ Cardinality(known) <= MaxSigns
       /\ signed' = known
       /\ last' = Exchange("sign_data", [node_id |-> node_id, data |-> data], r)
       /\ UNCHANGED <<ledgerVars, translatorVars, gatewayVars, counters>>

VerifySignature(data, signature, node_id) ==
    LET r == verify_signature(node_keys, data, signature, node_id) IN
    /\ last' = Exchange("verify_signature",
                        [node_id |-> node_id, data |-> data, signature |-> signature], r)
    /\ UNCHANGED <<ledgerVars, translatorVars, gatewayVars, counters, signed>>

AppendToLedger(data, node_id, signature) ==
    LET r == append_to_ledger(ledger_entries, node_keys, data, node_id, signature) IN
    /\ counters.appends < MaxAppends
    /\ ledger_entries' = r.ledger_entries
    /\ counters' = Count("ok", "appends")
    /\ last' = Exchange("append_to_ledger",
                        [node_id |-> node_id, data |-> data, signature |-> signature], r)
    /\ UNCHANGED <<node_keys, next_key, translatorVars, gatewayVars, signed>>

\* ------------------------------------------------ translator service actions

RegisterSchemaMapping(mapping) ==
    LET r == register_schema_mapping(schema_mappings, telemetry_data, mapping) IN
    /\ counters.mappings < MaxMappings
    /\ schema_mappings' = r.schema_mappings
    /\ telemetry_data' = r.telemetry_data
    /\ counters' = Count("ok", "mappings")
    /\ last' = Exchange("register_schema_mapping", mapping, r)
    /\ UNCHANGED <<ledgerVars, gatewayVars, signed>>

\* the data_transformed events logged so far
Transformed(telemetry) ==
    {i \in 1..Len(telemetry) : telemetry[i].event_type = "data_transformed"}

\* POST /transform called directly
TransformData(data, source_schema, target_schema) ==
    LET r == transform_data(schema_mappings, telemetry_data, data,
                            source_schema, target_schema)
    IN /\ Cardinality(Transformed(telemetry_data)) < MaxTransforms
       /\ telemetry_data' = r.telemetry_data
       /\ last' = Exchange("transform_data",
                           [data |-> data, source_schema |-> source_schema,
                            target_schema |-> target_schema], r)
       /\ UNCHANGED <<ledgerVars, schema_mappings, gatewayVars, counters, signed>>

\* -------------------------------------------------- gateway service actions

\* register_node up to its await, and the ledger handling the request
GatewayRegisterCall(registration, o) ==
    LET r == ledger_register_node(node_keys, next_key, registration.node_id, None) IN
    /\ counters.regs < MaxRegs
    /\ FaultAllowed(o)
    /\ node_keys' = IF Handled(o) THEN r.node_keys ELSE node_keys
    /\ next_key' = IF Handled(o) THEN r.next_key ELSE next_key
    /\ regs' = regs \cup {[id |-> counters.regs + 1,
                           registration |-> registration,
                           resp |-> Deliver(o, r)]}
    /\ counters' = Count(o, "regs")
    /\ UNCHANGED <<ledger_entries, translatorVars, registered_nodes, routing_table,
                   message_queue, runs, signed, last>>

\* register_node after its await
GatewayRegisterReturn(reg) ==
    /\ reg \in regs
    /\ regs' = regs \ {reg}
    /\ IF reg.resp.kind = "exception"
       THEN /\ last' = Exchange("register_node", reg.registration,
                                HttpError(503, "Ledger service unavailable"))
            /\ UNCHANGED <<registered_nodes, routing_table>>
       ELSE LET node == StoredNode(reg.registration, reg.resp.body) IN
            /\ registered_nodes' = DictSet(registered_nodes, node.node_id, node)
            /\ routing_table' = UpdateRouting(routing_table, node.capabilities,
                                              node.node_id)
            /\ last' = Exchange("register_node", reg.registration,
                                [status |-> 200,
                                 body |-> [node_id |-> node.node_id,
                                           status |-> "registered",
                                           public_key |-> node.public_key,
                                           private_key |-> node.private_key]])
    /\ UNCHANGED <<ledgerVars, translatorVars, message_queue, runs, counters, signed>>

\* send_message from its first line to its first await
SendMessage(route_request) ==
    LET message == route_request.message IN
    IF ~NodesExist(registered_nodes, message)
    THEN /\ last' = Exchange("send_message", route_request,
                       IF message.from_node \notin DOMAIN registered_nodes
                       THEN HttpError(404, "From node not registered")
                       ELSE HttpError(404, "To node not registered"))
         /\ UNCHANGED <<ledgerVars, translatorVars, gatewayVars, counters, signed>>
    ELSE /\ counters.msgs < MaxMsgs
         /\ runs' = runs \cup
                {ToTransform(registered_nodes,
                             NewRun(Uuid("message", counters.msgs + 1), route_request))}
         /\ counters' = Count("ok", "msgs")
         /\ UNCHANGED <<ledgerVars, translatorVars, registered_nodes, routing_table,
                        message_queue, regs, signed, last>>

Resume(run, run2) == runs' = (runs \ {run}) \cup {run2}

Awaiting(run, pc) == run \in runs /\ run.pc = pc /\ run.resp = Pending

\* a call that raised is never resumed
ResumableOnAnswer(run, pc) == run \in runs /\ run.pc = pc /\ run.resp.kind = "response"

Resumable(run, pc) == run \in runs /\ run.pc = pc /\ run.resp # Pending

\* line 237 to the return, with the append done only for a completed entry
TerminateKeepingCompleted(run, entry) ==
    /\ message_queue' = IF entry.status = "failed"
                        THEN message_queue
                        ELSE Append(message_queue, entry)
    /\ runs' = runs \ {run}
    /\ last' = Exchange("send_message", run.route_request, Summary(run, entry))
    /\ UNCHANGED <<ledgerVars, translatorVars, registered_nodes, routing_table,
                   regs, counters, signed>>

\* line 237 to the return
Terminate(run, entry) ==
    /\ message_queue' = Append(message_queue, entry)
    /\ runs' = runs \ {run}
    /\ last' = Exchange("send_message", run.route_request, Summary(run, entry))
    /\ UNCHANGED <<ledgerVars, translatorVars, registered_nodes, routing_table,
                   regs, counters, signed>>

Continue(run, run2) ==
    /\ Resume(run, run2)
    /\ UNCHANGED <<ledgerVars, translatorVars, registered_nodes, routing_table,
                   message_queue, regs, counters, signed, last>>

\* Step 1: the translator handles POST /transform
TransformCall(run, o) ==
    LET message == run.route_request.message
        r == transform_data(schema_mappings, telemetry_data, message.data,
                            message.schema, run.route_request.transform_schema)
    IN /\ Awaiting(run, "transform")
       /\ FaultAllowed(o)
       /\ telemetry_data' = IF Handled(o) THEN r.telemetry_data ELSE telemetry_data
       /\ Resume(run, [run EXCEPT !.resp = Deliver(o, r)])
       /\ counters' = CountFault(o)
       /\ UNCHANGED <<ledgerVars, schema_mappings, registered_nodes, routing_table,
                      message_queue, regs, signed, last>>

\* Step 1 after its await, up to the next await
TransformReturn(run) ==
    /\ Resumable(run, "transform")
    /\ IF run.resp.kind = "exception"
       THEN Terminate(run, FailedEntry(run, run.resp.error))
       ELSE Continue(run,
                ToSign(registered_nodes,
                    IF run.resp.status = 200
                    THEN AddStep([run EXCEPT !.transformed_data =
                                                run.resp.body.transformed_data],
                                 [step |-> "transform", status |-> "completed"])
                    ELSE run))

\* Step 2: the ledger service handles POST /sign
SignCall(run, o) ==
    LET r == sign_data(node_keys, run.route_request.message.from_node,
                       JsonDumps(run.transformed_data))
    IN /\ Awaiting(run, "sign")
       /\ FaultAllowed(o)
       /\ Resume(run, [run EXCEPT !.resp = Deliver(o, r)])
       /\ counters' = CountFault(o)
       /\ UNCHANGED <<ledgerVars, translatorVars, registered_nodes, routing_table,
                      message_queue, regs, signed, last>>

\* Step 2 after its await, up to the next await
SignReturn(run) ==
    /\ Resumable(run, "sign")
    /\ IF run.resp.kind = "exception"
       THEN Terminate(run, FailedEntry(run, run.resp.error))
       ELSE Continue(run,
                ToCommit(
                    IF run.resp.status = 200
                    THEN AddStep([run EXCEPT !.signature = run.resp.body.signature],
                                 [step |-> "sign", status |-> "completed"])
                    ELSE run))

\* Step 3: the ledger service handles POST /ledger/append
CommitCall(run, o) ==
    LET r == append_to_ledger(ledger_entries, node_keys, JsonDumps(LedgerData(run)),
                              run.route_request.message.from_node, run.signature)
    IN /\ Awaiting(run, "commit")
       /\ FaultAllowed(o)
       /\ ledger_entries' = IF Handled(o) THEN r.ledger_entries ELSE ledger_entries
       /\ Resume(run, [run EXCEPT !.resp = Deliver(o, r)])
       /\ counters' = CountFault(o)
       /\ UNCHANGED <<node_keys, next_key, translatorVars, registered_nodes,
                      routing_table, message_queue, regs, signed, last>>

\* Step 3 after its await, with the append tried again after an exception
CommitReturnRetrying(run) ==
    /\ Resumable(run, "commit")
    /\ IF run.resp.kind = "exception"
       THEN Continue(run, [run EXCEPT !.resp = Pending])
       ELSE Continue(run,
                IF run.resp.status = 200
                THEN [AddStep([run EXCEPT !.ledger_entry_id = run.resp.body.entry_id],
                              [step |-> "commit_ledger", status |-> "completed",
                               ledger_entry_id |-> run.resp.body.entry_id])
                        EXCEPT !.pc = "telemetry", !.resp = Pending]
                ELSE [run EXCEPT !.pc = "telemetry", !.resp = Pending])

\* Step 3 after its await, up to the next await
CommitReturn(run) ==
    /\ Resumable(run, "commit")
    /\ IF run.resp.kind = "exception"
       THEN Terminate(run, FailedEntry(run, run.resp.error))
       ELSE Continue(run,
                IF run.resp.status = 200
                THEN [AddStep([run EXCEPT !.ledger_entry_id = run.resp.body.entry_id],
                              [step |-> "commit_ledger", status |-> "completed",
                               ledger_entry_id |-> run.resp.body.entry_id])
                        EXCEPT !.pc = "telemetry", !.resp = Pending]
                ELSE [run EXCEPT !.pc = "telemetry", !.resp = Pending])

\* Step 4: the translator handles POST /telemetry
TelemetryCall(run, o) ==
    LET r == log_telemetry(telemetry_data, TelemetryEvent(run)) IN
    /\ Awaiting(run, "telemetry")
    /\ FaultAllowed(o)
    /\ telemetry_data' = IF Handled(o) THEN r.telemetry_data ELSE telemetry_data
    /\ Resume(run, [run EXCEPT !.resp = Deliver(o, r)])
    /\ counters' = CountFault(o)
    /\ UNCHANGED <<ledgerVars, schema_mappings, registered_nodes, routing_table,
                   message_queue, regs, signed, last>>

\* Step 4 after its await, to the return
TelemetryReturn(run) ==
    /\ Resumable(run, "telemetry")
    /\ IF run.resp.kind = "exception"
       THEN Terminate(run, FailedEntry(run, run.resp.error))
       ELSE Terminate(run, CompletedEntry(run))

SchemaMappings ==
    [source_schema : {Str(x) : x \in SourceSchemas},
     target_schema : {Str(x) : x \in TargetSchemas},
     mapping_rules : RuleSets]

\* ------------------------------------------------------------ specifications

Next ==
    \/ \E m \in SchemaMappings :
          counters.mappings < MaxPipelineMappings /\ RegisterSchemaMapping(m)
    \/ \E g \in Registrations, o \in Outcomes : GatewayRegisterCall(g, o)
    \/ \E g \in regs : GatewayRegisterReturn(g)
    \/ \E q \in RouteRequests : SendMessage(q)
    \/ \E r \in runs, o \in Outcomes : TransformCall(r, o)
    \/ \E r \in runs : TransformReturn(r)
    \/ \E r \in runs, o \in Outcomes : SignCall(r, o)
    \/ \E r \in runs : SignReturn(r)
    \/ \E r \in runs, o \in Outcomes : CommitCall(r, o)
    \/ \E r \in runs : CommitReturn(r)
    \/ \E r \in runs, o \in Outcomes : TelemetryCall(r, o)
    \/ \E r \in runs : TelemetryReturn(r)

Spec == Init /\ [][Next]_vars

\* the next step of one send_message coroutine: the call it is suspended at
\* is handled, or it is resumed with the outcome
RunStep(run) ==
    \/ \E o \in Outcomes : TransformCall(run, o)
    \/ TransformReturn(run)
    \/ \E o \in Outcomes : SignCall(run, o)
    \/ SignReturn(run)
    \/ \E o \in Outcomes : CommitCall(run, o)
    \/ CommitReturn(run)
    \/ \E o \in Outcomes : TelemetryCall(run, o)
    \/ TelemetryReturn(run)

\* the coroutine of the n-th accepted submission
RunOf(n) == {r \in runs : r.message_entry.id = Uuid("message", n)}

\* every collaborator call comes back (httpx's default timeout ends a call
\* that gets no answer) and the event loop resumes every coroutine that is
\* ready, whatever the other coroutines do
FairSpec ==
    /\ Spec
    /\ \A n \in 1..MaxMsgs : WF_vars(\E r \in RunOf(n) : RunStep(r))

\* the ledger service on its own, driven through its HTTP interface
NextLedger ==
    \/ \E n \in NodeIds, k \in PublicKeyInputs : LedgerRegisterNode(n, k)
    \/ \E n \in NodeIds, d \in DataStrings : SignData(n, d)
    \/ \E d \in DataStrings, s \in SignatureInputs, n \in NodeIds : VerifySignature(d, s, n)
    \/ \E d \in DataStrings, n \in NodeIds, s \in SignatureInputs : AppendToLedger(d, n, s)

LedgerSpec == Init /\ [][NextLedger]_vars

TranslatorMappings ==
    [source_schema : {Str(x) : x \in SourceSchemas},
     target_schema : {Str(x) : x \in TranslatorTargets},
     mapping_rules : TranslatorRuleSets]

\* the translator on its own, driven through its HTTP interface
NextTranslator ==
    \/ \E m \in TranslatorMappings : RegisterSchemaMapping(m)
    \/ \E d \in Payloads, x \in SourceSchemas, y \in TranslatorTargets :
          TransformData(d, Str(x), Str(y))

TranslatorSpec == Init /\ [][NextTranslator]_vars

\* ------------------------------------------------------------------ claims

RunIds(rs) == {r.message_entry.id : r \in rs}

\* the run with this id has left the set of coroutines in flight
Terminated(run) == run \in runs /\ run.message_entry.id \notin RunIds(runs')

NewestMessage == message_queue'[Len(message_queue')]

NewestEntry == ledger_entries'[Len(ledger_entries')]

Appended == Len(ledger_entries') = Len(ledger_entries) + 1

AllKeys == ExternalKeys \cup 1..next_key

\* the signature is the Ed25519 signature of data under the private key that
\* belongs to the public key stored for node_id
GenuineSignature(keys, node_id, data, signature) ==
    /\ node_id \in DOMAIN keys
    /\ \E k \in AllKeys :
          /\ keys[node_id].public_key = b64encode(PublicBytes(k))
          /\ signature = b64encode(Ed25519Sign(PrivateBytes(k), data))

\* C1: in every reachable state the entry at position i of the ledger (counted
\* from 0) has block_height = i, so the heights are gapless, free of
\* duplicates and increasing in append order.
C1_HeightsGapless ==
    \A i \in 1..Len(ledger_entries) : ledger_entries[i].block_height = i - 1

\* two runs committed concurrently: both appends are done and neither
\* coroutine has resumed yet
C1_Witness ==
    /\ Len(ledger_entries) = 2
    /\ ledger_entries[2].block_height = 1
    /\ \E r1, r2 \in runs :
          /\ r1 # r2
          /\ r1.pc = "commit" /\ r1.resp.kind = "response"
          /\ r2.pc = "commit" /\ r2.resp.kind = "response"

\* C2: whenever a pipeline run completes having both signed and committed,
\* the ledger entry it committed is recorded with verified = TRUE.
C2_SignedCommitVerified ==
    \A i \in 1..Len(message_queue) :
        LET m == message_queue[i] IN
        (m.status = "completed" /\ Truthy(m.signature) /\ m.ledger_entry_id # None)
            => \E j \in 1..Len(ledger_entries) :
                  /\ ledger_entries[j].id = m.ledger_entry_id
                  /\ ledger_entries[j].verified

\* C3: a run waiting for the transform or the sign step is never ended by
\* that step: whatever the collaborator does, no MessageEntry goes from
\* these steps to the history.
C3_TransformSignNeverFail ==
    [][\A r \in runs : r.pc \in {"transform", "sign"} => ~Terminated(r)]_vars

\* C4: a run that has reached the notify step ends completed, whether or
\* not the telemetry call succeeds.
C4_NotifyNeverFatal ==
    [][\A r \in runs :
          (r.pc = "telemetry" /\ Terminated(r))
              => /\ NewestMessage.id = r.message_entry.id
                 /\ NewestMessage.status = "completed"]_vars

\* C5: a run for which ledger commitment was requested and that ends
\* completed has a ledger entry id, a commit_ledger step, and the ledger
\* holds that entry.
C5_CommitRequestedIsCommitted ==
    [][\A r \in runs :
          (Terminated(r) /\ r.route_request.commit_to_ledger
                         /\ NewestMessage.status = "completed")
              => /\ NewestMessage.ledger_entry_id # None
                 /\ \E k \in 1..Len(NewestMessage.steps) :
                       NewestMessage.steps[k].step = "commit_ledger"
                 /\ \E j \in 1..Len(ledger_entries') :
                       ledger_entries'[j].id = NewestMessage.ledger_entry_id]_vars

\* C6: a submission is accepted only if its from and to nodes are both in
\* the node directory, and a rejected submission changes neither the
\* message history, the runs in flight, the ledger, the key table nor the
\* translator's mappings and telemetry log.
C6_RejectedBeforeEntry ==
    [][/\ \A r \in runs' :
             r.message_entry.id \notin RunIds(runs)
                 => /\ r.route_request.message.from_node \in DOMAIN registered_nodes
                    /\ r.route_request.message.to_node \in DOMAIN registered_nodes
       /\ (last'.op = "send_message" /\ last'.status = 404 /\ last' # last)
             => UNCHANGED <<ledgerVars, translatorVars, gatewayVars, counters>>]_vars

\* a submission to an unregistered to node was turned away
C6_Witness ==
    /\ last.op = "send_message"
    /\ last.status = 404
    /\ last.request.message.from_node \in DOMAIN registered_nodes
    /\ last.request.message.to_node \notin DOMAIN registered_nodes
    /\ message_queue = <<>> /\ runs = {}

\* C7: every append call answers 200, adds exactly one entry at the end of
\* the ledger, holding the data, node id and signature of the call, and
\* returns that entry's id, whatever the signature is.
C7_AppendNeverRejects ==
    [][(last'.op = "append_to_ledger" /\ counters'.appends = counters.appends + 1)
          => /\ last'.status = 200
             /\ Appended
             /\ SubSeq(ledger_entries', 1, Len(ledger_entries)) = ledger_entries
             /\ NewestEntry.data = last'.request.data
             /\ NewestEntry.node_id = last'.request.node_id
             /\ NewestEntry.signature = last'.request.signature
             /\ last'.body.entry_id = NewestEntry.id]_vars

\* an entry with a signature that verifies under no key, for an unknown node
C7_Witness ==
    \E i \in 1..Len(ledger_entries) :
        /\ ledger_entries[i].signature = Garbage
        /\ ledger_entries[i].node_id \notin DOMAIN node_keys
        /\ last.op = "append_to_ledger" /\ last.status = 200

\* C8: an appended entry has verified = TRUE exactly when its signature is
\* the signature of the entry's data under the key stored for the entry's
\* node id at the time of the append.
C8_VerifiedIffGenuine ==
    [][Appended =>
          (NewestEntry.verified <=>
              GenuineSignature(node_keys, NewestEntry.node_id, NewestEntry.data,
                               NewestEntry.signature))]_vars

\* the ledger holds a verified entry
C8_Witness ==
    \E i \in 1..Len(ledger_entries) :
        ledger_entries[i].verified /\ Truthy(ledger_entries[i].signature)

\* C9: appending data with a signature that /sign returned for the same
\* node and data, for a node whose private key the custodian holds, yields
\* verified = TRUE.
C9_RoundTrip ==
    [][(/\ Appended
        /\ [data |-> NewestEntry.data, signature |-> NewestEntry.signature,
            node_id |-> NewestEntry.node_id] \in signed
        /\ NewestEntry.node_id \in DOMAIN node_keys
        /\ Truthy(node_keys[NewestEntry.node_id].private_key))
          => NewestEntry.verified]_vars

\* C10: /verify answers 404 exactly for a node id without a key, and
\* otherwise 200 with valid = TRUE exactly when the signature is the
\* signature of the payload under the key pair stored for the node.
C10_VerifyIffGenuine ==
    [][(last'.op = "verify_signature" /\ last' # last)
          => LET q == last'.request IN
             IF q.node_id \notin DOMAIN node_keys
             THEN last'.status = 404
             ELSE /\ last'.status = 200
                  /\ last'.body.valid <=>
                        GenuineSignature(node_keys, q.node_id, q.data, q.signature)]_vars

\* /verify accepted a signature
C10_Witness ==
    /\ last.op = "verify_signature"
    /\ last.status = 200
    /\ last.body.valid

\* C11: a registration that supplies a public key stores a key pair without
\* a private half; a sign request for a node whose stored key pair has no
\* private half is answered 400 (NoSigningKey) and produces no signature;
\* a sign request for a node id without a key pair is answered 404
\* (NodeUnknown) and produces no signature.
C11_NoKeyNoSignature ==
    [][/\ (last'.op = "ledger.register_node" /\ counters'.regs # counters.regs
            /\ Truthy(last'.request.public_key) /\ last'.status = 200)
          => node_keys'[last'.request.node_id].private_key = None
       /\ (last'.op = "sign_data" /\ last' # last)
          => LET q == last'.request IN
             IF q.node_id \notin DOMAIN node_keys
             THEN last'.status = 404 /\ signed' = signed
             ELSE ~Truthy(node_keys[q.node_id].private_key)
                     => /\ last'.status = 400
                        /\ "signature" \notin DOMAIN last'.body
                        /\ signed' = signed]_vars

\* a sign request for a node registered with its own public key was refused
C11_Witness ==
    /\ last.op = "sign_data"
    /\ last.status = 400
    /\ last.request.node_id \in DOMAIN node_keys
    /\ node_keys[last.request.node_id].public_key
          \in {b64encode(PublicBytes(k)) : k \in ExternalKeys}

\* C12: in every reachable state no record of the gateway's node directory
\* holds a private key, and no answer of the gateway's register_node
\* carries one.
C12_NoKeyMaterialInGateway ==
    /\ \A n \in DOMAIN registered_nodes : ~Truthy(registered_nodes[n].private_key)
    /\ (last.op = "register_node" /\ last.status = 200)
          => ~Truthy(last.body.private_key)

\* C13: no step of any service removes a ledger entry, changes one of its
\* fields or moves it: after every step each entry is at its old position
\* with its old fields, and get_ledger_entry with its id still returns it.
C13_AppendOnly ==
    [][/\ Len(ledger_entries') >= Len(ledger_entries)
       /\ \A i \in 1..Len(ledger_entries) :
             /\ ledger_entries'[i] = ledger_entries[i]
             /\ get_ledger_entry(ledger_entries', ledger_entries[i].id)
                   = [status |-> 200, body |-> ledger_entries[i]]]_vars

\* the first entry has outlived a second append and the end of both runs
C13_Witness ==
    /\ Len(ledger_entries) = 2
    /\ Len(message_queue) = 2
    /\ runs = {}
    /\ get_ledger_entry(ledger_entries, ledger_entries[1].id).body = ledger_entries[1]

QueueIds(q) == {q[i].id : i \in 1..Len(q)}

\* C14: a MessageEntry is processing while its run is in flight and is
\* completed or failed when the run ends; the history only grows, by one
\* terminal entry per ended run, holding that run's id, and no entry already
\* in the history is changed, moved or removed by any later step, also
\* while other runs are in flight.
C14_AppendThenFreeze ==
    [][/\ Len(message_queue') >= Len(message_queue)
       /\ Len(message_queue') <= Len(message_queue) + 1
       /\ SubSeq(message_queue', 1, Len(message_queue)) = message_queue
       /\ \A i \in 1..Len(message_queue') :
             message_queue'[i].status \in {"completed", "failed"}
       /\ \A r \in runs' : /\ r.message_entry.status = "processing"
                           /\ r.message_entry.id \notin QueueIds(message_queue')
       /\ \A r \in runs :
             Terminated(r) <=> /\ Len(message_queue') = Len(message_queue) + 1
                               /\ NewestMessage.id = r.message_entry.id
       /\ Len(message_queue') = Len(message_queue) + 1
             => /\ \E r \in runs : Terminated(r)
                /\ NewestMessage.id \notin QueueIds(message_queue)]_vars

\* the run submitted second has ended, failed, while the run submitted
\* first is still in flight with a step recorded
C14_Witness ==
    /\ Len(message_queue) = 1
    /\ message_queue[1].id = Uuid("message", 2)
    /\ message_queue[1].status = "failed"
    /\ \E r \in runs : /\ r.message_entry.id = Uuid("message", 1)
                       /\ Len(r.message_entry.steps) >= 1

\* C15: a run that is resumed with an exception ends at once: its
\* MessageEntry goes to the history as failed, with the error and a failure
\* time, with exactly the steps recorded before the error, and the ledger
\* keeps every entry it had.
C15_ErrorFailsKeepingSteps ==
    [][\A r \in runs :
          (r.resp.kind = "exception" /\ r.message_entry.id \notin RunIds(runs'))
              => /\ Len(message_queue') = Len(message_queue) + 1
                 /\ NewestMessage.id = r.message_entry.id
                 /\ NewestMessage.status = "failed"
                 /\ NewestMessage.error = r.resp.error
                 /\ "failed_at" \in DOMAIN NewestMessage
                 /\ NewestMessage.steps = r.message_entry.steps
                 /\ ledger_entries' = ledger_entries]_vars

\* a run failed at the notify step after its commit: the failed entry keeps
\* the commit_ledger step and the ledger keeps the committed entry
C15_Witness ==
    \E i \in 1..Len(message_queue) :
        /\ message_queue[i].status = "failed"
        /\ \E k \in 1..Len(message_queue[i].steps) :
              /\ message_queue[i].steps[k].step = "commit_ledger"
              /\ get_ledger_entry(ledger_entries,
                                  message_queue[i].steps[k].ledger_entry_id).status = 200

HasStep(entry, name) == \E k \in 1..Len(entry.steps) : entry.steps[k].step = name

\* the run of runs' that continues run r
Successors(r) == {r2 \in runs' : r2.message_entry.id = r.message_entry.id}

NoMapping(request) ==
    MatchingMappings(schema_mappings, request.message.schema,
                     request.transform_schema) = {}

\* C16: when the translator handles a transform request for a schema pair
\* without a registered mapping it answers 404; the run resumed with that
\* answer goes on, with no transform step and with the message's own data
\* as its transformed data; and a run without a transform step signs,
\* commits and stores the message's own data.
C16_NoMappingDegrades ==
    /\ [][\A r \in runs :
             (r.pc = "transform" /\ r.resp.kind = "response"
              /\ r.resp.status = 404 /\ r \notin runs')
                => Successors(r) # {}]_vars
    /\ [][\A r \in runs : \A r2 \in Successors(r) :
             /\ (/\ r.pc = "transform" /\ r.resp = Pending
                 /\ r2.resp.kind = "response"
                 /\ counters'.faults = counters.faults
                 /\ NoMapping(r.route_request))
                   => r2.resp.status = 404
             /\ (/\ r.pc = "transform" /\ r.resp.kind = "response"
                 /\ r.resp.status = 404
                 /\ r2 # r)
                   => /\ r2.pc # "transform"
                      /\ ~HasStep(r2.message_entry, "transform")
                      /\ r2.transformed_data = r.route_request.message.data
                      /\ message_queue' = message_queue
             /\ (/\ r.pc = "sign" /\ r.resp = Pending
                 /\ r2.resp.kind = "response" /\ r2.resp.status = 200
                 /\ ~HasStep(r.message_entry, "transform"))
                   => r2.resp.body.data = JsonDumps(r.route_request.message.data)
             /\ (/\ r.pc = "commit" /\ r.resp = Pending
                 /\ r2.resp # Pending
                 /\ Appended
                 /\ ~HasStep(r.message_entry, "transform"))
                   => NewestEntry.data.v.transformed_data
                         = r.route_request.message.data]_vars
    /\ [](\A i \in 1..Len(message_queue) :
             (message_queue[i].status = "completed"
              /\ ~HasStep(message_queue[i], "transform"))
                => message_queue[i].transformed_data = message_queue[i].data)

\* a message that asked for a transform completed, signed and committed,
\* with no mapping registered and no transform step
C16_Witness ==
    /\ schema_mappings = <<>>
    /\ \E i \in 1..Len(message_queue) :
          LET m == message_queue[i] IN
          /\ m.status = "completed"
          /\ Truthy(m.schema)
          /\ ~HasStep(m, "transform")
          /\ HasStep(m, "sign") /\ HasStep(m, "commit_ledger")
          /\ m.transformed_data = m.data

\* C17: a direct transform request is answered 404 when no registered
\* mapping has its (source, target) pair; otherwise with the id of the
\* first registered mapping of that pair and with the record whose fields
\* are exactly the target fields of that mapping's rules whose source field
\* is in the payload, each holding the payload's value of its source field.
C17_TransformCopiesMappedFields ==
    [][(last'.op = "transform_data"
        /\ (last' # last \/ telemetry_data' # telemetry_data))
          => LET q == last'.request
                 found == {i \in 1..Len(schema_mappings) :
                              /\ schema_mappings[i].source_schema = q.source_schema
                              /\ schema_mappings[i].target_schema = q.target_schema}
             IN IF found = {}
                THEN last'.status = 404
                ELSE \E i \in found :
                        LET rules == schema_mappings[i].mapping_rules
                            out == last'.body.transformed_data
                        IN /\ \A j \in found : i <= j
                           /\ last'.status = 200
                           /\ last'.body.mapping_id = schema_mappings[i].id
                           /\ \A f \in DOMAIN rules :
                                 f \in DOMAIN out <=> rules[f] \in DOMAIN q.data
                           /\ \A f \in DOMAIN out :
                                 /\ f \in DOMAIN rules
                                 /\ out[f] = q.data[rules[f]]]_vars

\* two mappings of one schema pair with different rules: the first one was
\* used, and its rule with an absent source field left no field
C17_Witness ==
    /\ Len(schema_mappings) = 2
    /\ schema_mappings[1].mapping_rules = [u |-> "x", v |-> "z"]
    /\ schema_mappings[2].mapping_rules = [u |-> "y"]
    /\ schema_mappings[1].target_schema = schema_mappings[2].target_schema
    /\ last.op = "transform_data"
    /\ last.status = 200
    /\ last.request.data = [x |-> 1, y |-> 2]
    /\ last.request.target_schema = schema_mappings[1].target_schema
    /\ last.body.transformed_data = [u |-> 1]

StageRank(name) ==
    CASE name \in {"start", "transform"} -> 1
      [] name = "sign" -> 2
      [] name \in {"commit", "commit_ledger"} -> 3
      [] name = "telemetry" -> 4

\* the step names are in the order transform, sign, commit_ledger, none twice
StepsInOrder(steps) ==
    /\ \A k \in 1..Len(steps) : steps[k].step \in {"transform", "sign", "commit_ledger"}
    /\ \A j, k \in 1..Len(steps) :
          j < k => StageRank(steps[j].step) < StageRank(steps[k].step)

\* C18: the steps of every MessageEntry, in flight or in the history, are
\* in the order transform, sign, commit_ledger with no name twice; a run
\* never returns to a stage it has left nor calls a stage's collaborator a
\* second time; and no two ledger entries carry the same message id.
C18_OneAttemptPerStage ==
    /\ [](/\ \A r \in runs : StepsInOrder(r.message_entry.steps)
          /\ \A i \in 1..Len(message_queue) : StepsInOrder(message_queue[i].steps)
          /\ \A i, j \in 1..Len(ledger_entries) :
                ledger_entries[i].data.v.message_id = ledger_entries[j].data.v.message_id
                    => i = j)
    /\ [][\A r \in runs : \A r2 \in Successors(r) :
             /\ StageRank(r2.pc) >= StageRank(r.pc)
             /\ (r.resp # Pending /\ r2 # r) => StageRank(r2.pc) > StageRank(r.pc)]_vars

\* a run that went through all three stages has ended and the ledger holds
\* one entry for each of two submissions
C18_Witness ==
    /\ Len(ledger_entries) = 2
    /\ \E i \in 1..Len(message_queue) :
          /\ Len(message_queue[i].steps) = 3
          /\ message_queue[i].steps[1].step = "transform"
          /\ message_queue[i].steps[2].step = "sign"
          /\ message_queue[i].steps[3].step = "commit_ledger"

\* C19: no step changes the key pair the ledger service stores for a node
\* id, nor the type, capabilities, endpoint or keys the gateway stores for a
\* node id, and no node id leaves either table.
C19_NodeImmutable ==
    [][/\ \A n \in DOMAIN node_keys :
             n \in DOMAIN node_keys' /\ node_keys'[n] = node_keys[n]
       /\ \A n \in DOMAIN registered_nodes :
             /\ n \in DOMAIN registered_nodes'
             /\ registered_nodes'[n].node_type = registered_nodes[n].node_type
             /\ registered_nodes'[n].capabilities = registered_nodes[n].capabilities
             /\ registered_nodes'[n].endpoint = registered_nodes[n].endpoint
             /\ registered_nodes'[n].public_key = registered_nodes[n].public_key
             /\ registered_nodes'[n].private_key = registered_nodes[n].private_key]_vars

\* C20: every accepted submission is either in flight or in the history
\* with a terminal status; every run eventually leaves the coroutines in
\* flight for good; and a run in flight can always take its next step,
\* whatever the other runs do.
C20_EveryRunTerminates ==
    /\ [](\A n \in 1..counters.msgs :
            \/ RunOf(n) # {}
            \/ \E i \in 1..Len(message_queue) :
                  /\ message_queue[i].id = Uuid("message", n)
                  /\ message_queue[i].status \in {"completed", "failed"})
    /\ \A n \in 1..MaxMsgs : <>[](RunOf(n) = {})
    /\ [](\A r \in runs : ENABLED RunStep(r))

\* both runs have ended, one of them failed on a call that did not return
\* an answer
C20_Witness ==
    /\ runs = {}
    /\ Len(message_queue) = 2
    /\ \E i \in 1..2 : /\ message_queue[i].status = "failed"
                       /\ message_queue[i].error = "ReadTimeout"

\* C21: when a run ends, the caller is answered 200 with a summary whose
\* message id, status and steps are those of the MessageEntry the run
\* appended to the history, and whose ledger entry id is that entry's,
\* whatever stage the run ended at.
C21_SummaryReturned ==
    [][\A r \in runs :
          Terminated(r)
              => /\ last'.op = "send_message"
                 /\ last'.request = r.route_request
                 /\ last'.status = 200
                 /\ last'.body.message_id = NewestMessage.id
                 /\ last'.body.status = NewestMessage.status
                 /\ last'.body.steps = NewestMessage.steps
                 /\ last'.body.ledger_entry_id = Get(NewestMessage, "ledger_entry_id")]_vars

\* the ledger entry ids a MessageEntry records, in its commit_ledger step
\* and in its ledger_entry_id field
RecordedIds(entry) ==
    {entry.steps[k].ledger_entry_id :
        k \in {j \in 1..Len(entry.steps) : entry.steps[j].step = "commit_ledger"}}
    \cup (IF "ledger_entry_id" \in DOMAIN entry /\ entry.ledger_entry_id # None
          THEN {entry.ledger_entry_id}
          ELSE {})

\* the MessageEntries in flight and in the history
AllMessageEntries ==
    {r.message_entry : r \in runs} \cup {message_queue[i] : i \in 1..Len(message_queue)}

\* C22: every ledger entry id recorded in a MessageEntry, in flight or in
\* the history, is the id of a ledger entry whose node id is the message's
\* sender and whose data is the bundle with that MessageEntry's id, hash,
\* from, to and type; and no two MessageEntries record the same id.
C22_RecordedIdsResolve ==
    /\ \A e \in AllMessageEntries : \A id \in RecordedIds(e) :
          LET got == get_ledger_entry(ledger_entries, id) IN
          /\ got.status = 200
          /\ got.body.node_id = e.from_node
          /\ got.body.data.t = "json"
          /\ got.body.data.v.message_id = e.id
          /\ got.body.data.v.hash = e.hash
          /\ got.body.data.v.from_node = e.from_node
          /\ got.body.data.v.to_node = e.to_node
          /\ got.body.data.v.message_type = e.message_type
    /\ \A e1, e2 \in AllMessageEntries :
          e1.id # e2.id => RecordedIds(e1) \cap RecordedIds(e2) = {}
    /\ \A r \in runs :
          r.ledger_entry_id \notin {None, Unbound}
              => r.ledger_entry_id \in RecordedIds(r.message_entry)

\* two runs committed: one is in the history with its entry id in both
\* places, the other still in flight with its commit_ledger step
C22_Witness ==
    /\ Len(ledger_entries) = 2
    /\ \E i \in 1..Len(message_queue) :
          /\ message_queue[i].status = "completed"
          /\ RecordedIds(message_queue[i]) # {}
    /\ \E r \in runs : RecordedIds(r.message_entry) # {}

====
